---- MODULE Spec2Model ----
(***************************************************************************)
(* Actor update rules of LEQ (algos/leq/actor.py):                         *)
(* DPG_lambda_update_actor and DPG_multistep_update_actor.                 *)
(*                                                                         *)
(* Real numbers are exact rationals <<n, d>> with d > 0 in lowest terms.   *)
(* A list of the code indexed 0..n is a sequence indexed 1..n+1.           *)
(* The dynamics model, the actor and the critic are opaque pure functions: *)
(* each is a table that is filled in on first use (any value of its range) *)
(* and read back on every later call with the same arguments.              *)
(* States and actions are scalars (state_dim = action_dim = 1).            *)
(***************************************************************************)
EXTENDS Integers, Sequences, FiniteSets, TLC

\* ---------------------------------------------------------------- bounds
MaxH == 2
MaxB == 2

\* ------------------------------------------------------------- rationals
RECURSIVE Gcd(_, _)
Gcd(a, b) == IF b = 0 THEN a ELSE Gcd(b, a % b)

Abs(n) == IF n < 0 THEN -n ELSE n

Rat(n, d) ==
    LET g == Gcd(Abs(n), Abs(d))
        s == IF d < 0 THEN -1 ELSE 1
    IN  <<(s * n) \div g, (s * d) \div g>>

R(n) == <<n, 1>>
RAdd(x, y) == Rat(x[1] * y[2] + y[1] * x[2], x[2] * y[2])
RSub(x, y) == Rat(x[1] * y[2] - y[1] * x[2], x[2] * y[2])
RMul(x, y) == Rat(x[1] * y[1], x[2] * y[2])
RDiv(x, y) == Rat(x[1] * y[2], x[2] * y[1])
RGt(x, y) == x[1] * y[2] > y[1] * x[2]
RLe(x, y) == x[1] * y[2] <= y[1] * x[2]

RECURSIVE RPow(_, _)
RPow(x, n) == IF n = 0 THEN R(1) ELSE RMul(x, RPow(x, n - 1))

\* x / y as jnp computes it: a division by exactly zero yields no number
NaN == "nan"
JDiv(x, y) == IF y[1] = 0 THEN NaN ELSE RDiv(x, y)

\* ------------------------------------------------------ ranges of inputs
States == {0, 1}
Actions == {0, 1}
Rewards == {0, 1}
Terminals == {0, 1}
QValues == {0, 2}
Discounts == {<<1, 2>>, <<2, 3>>}
Lambdas == {<<0, 1>>, <<1, 2>>, <<2, 1>>}
Expectiles == {<<7, 10>>}
ModelOut == [s_next : States, rew : Rewards, terminal : Terminals]

\* ------------------------------------------------------------ random keys
\* jax.random.split(key, 4): four distinct keys derived from key
Split(key) == [j \in 1..4 |-> Append(key, j)]

\* ------------------------------------------------------------- list help
Last(s) == s[Len(s)]

RECURSIVE Reverse(_)
Reverse(s) == IF s = <<>> THEN <<>> ELSE Append(Reverse(Tail(s)), Head(s))

\* the set of results a call f(x) of an opaque function can have
Call(T, x, range) == IF x \in DOMAIN T THEN {T[x]} ELSE range
\* the table after that call returned v
Memo(T, x, v) == IF x \in DOMAIN T THEN T ELSE T @@ (x :> v)

\* ------------------------------------------------------------------ state
VARIABLES
    variant,        \* "lambda": DPG_lambda_update_actor, "multistep": DPG_multistep_update_actor
    H, discount, lamb, expectile,   \* arguments of the update rule
    Robs, Ra,       \* start state and start action of one batch element
    delta_a,        \* perturbation passed to calculate_gae_backward
    delta_p,        \* perturbation of a second evaluation of calculate_gae_backward
    actorT, criticT, modelT,        \* the opaque functions, as far as they were called
    pc,             \* the part of the update rule that is running
    fwd,            \* locals of calculate_gae_foward
    bwd,            \* locals of calculate_gae_backward(delta_a, ...)
    pert,           \* locals of calculate_gae_backward(delta_p, ...)
    B,              \* N * num_repeat, the number of batch elements
    calls,          \* per batch element, what model and critic returned along its rollout
    actions0, mask_weights0, q_rollout, ep_weights,     \* stacked results of vmap_foward
    grad_gae,       \* diagonal of the jacobian of calculate_gae_backward
    actions_grad, policy_std,       \* the policy's output inside actor_loss_fn
    actor_loss, info                \* what actor_loss_fn returns

Config == <<variant, H, discount, lamb, expectile>>
Element == <<Robs, Ra, delta_a, delta_p, actorT, criticT, modelT, fwd, bwd, pert>>
Batch == <<B, calls, actions0, mask_weights0, q_rollout, ep_weights, grad_gae,
           actions_grad, policy_std, actor_loss, info>>

vars == <<Config, Element, Batch, pc>>

NoFrame == [states |-> <<>>, rewards |-> <<>>, actions |-> <<>>,
            mask_weights |-> <<>>, keys |-> <<>>, rngs |-> <<>>,
            q_values |-> <<>>, q_rollout |-> <<>>, ep_weights |-> <<>>]

\* jnp.zeros_like of a list of n entries
Zeros(n) == [j \in 1..n |-> 0]

\* --------------------------------------------------- trajectory unrolling
\* rng1, rng2, rng3, key0 = jax.random.split(keys[-1], 4): model(rng1, ...)
NoiseKey(rng) == rng[1]
\* ... and keys.append(key0)
CarryKey(rng) == rng[4]

\* a mask that forgets the steps before: 1 - terminal
MaskNextNotCumulative(m, terminal) == 1 - terminal

\* mask_weights[i] * (1 - terminal)
MaskNext(m, terminal) == m * (1 - terminal)

\* the lists a rollout starts from, a0 being its first action
Begin(a0) ==
    LET x == <<Robs, a0>>
    IN  { [frame |-> [NoFrame EXCEPT !.states = <<Robs>>,
                                     !.actions = <<a0>>,
                                     !.mask_weights = <<1>>,
                                     !.keys = << <<>> >>,
                                     !.q_values = <<R(qv)>>],
           cT |-> Memo(criticT, x, qv)] : qv \in Call(criticT, x, QValues) }

\* one iteration of "for i in range(H)": the model called with the noise key
\* rng1, the actor, the perturbation d of a_next, the critic, the appends
Unroll(f, key0, rng1, d) ==
    LET i == Len(f.rewards)
        x == <<rng1, f.states[i + 1], f.actions[i + 1]>>
    IN  UNION { UNION { {
            [frame |-> [f EXCEPT
                 !.keys = Append(@, key0),
                 !.rngs = Append(@, rng1),
                 !.states = Append(@, out.s_next),
                 !.actions = Append(@, a + d),
                 !.rewards = Append(@, out.rew),
                 !.mask_weights = Append(@, MaskNext(f.mask_weights[i + 1], out.terminal)),
                 !.q_values = Append(@, R(qv))],
             aT |-> Memo(actorT, out.s_next, a),
             cT |-> Memo(criticT, <<out.s_next, a + d>>, qv),
             mT |-> Memo(modelT, x, out)]
            : qv \in Call(criticT, <<out.s_next, a + d>>, QValues) }
            : a \in Call(actorT, out.s_next, Actions) }
            : out \in Call(modelT, x, ModelOut) }

\* calculate_gae_foward: its lists at the start
FowardBeginResults == Begin(Ra)

\* calculate_gae_foward: one iteration of "for i in range(H)"
FowardStepResults(f) ==
    LET rng == Split(Last(f.keys))
    IN  Unroll(f, CarryKey(rng), NoiseKey(rng), 0)

\* calculate_gae_backward(delta, ...): its lists at the start
BackwardBeginResults(delta) == Begin(Ra + delta[1])

\* a replay that hands the model the second sub-key instead of the first
BackwardStepOtherNoise(f, delta) ==
    LET rng == Split(Last(f.keys))
    IN  Unroll(f, rng[4], rng[2], delta[Len(f.rewards) + 2])

\* calculate_gae_backward(delta, ...): one iteration of "for i in range(H)"
BackwardStepResults(f, delta) ==
    LET rng == Split(Last(f.keys))
    IN  Unroll(f, CarryKey(rng), NoiseKey(rng), delta[Len(f.rewards) + 2])

\* -------------------------------------------------------- return estimate
\* a bootstrap without the reward of step i
QNextNoReward(f, i, q_last) ==
    RMul(RMul(R(f.mask_weights[i + 2]), discount), q_last)

\* a bootstrap masked by mask_weights[i] in place of mask_weights[i + 1]
QNextMaskOffByOne(f, i, q_last) ==
    RAdd(R(f.mask_weights[i + 1] * f.rewards[i + 1]),
         RMul(RMul(R(f.mask_weights[i + 1]), discount), q_last))

\* mask_weights[i] * rewards[i] + mask_weights[i + 1] * discount * q_rollout[-1]
QNext(f, i, q_last) ==
    RAdd(R(f.mask_weights[i + 1] * f.rewards[i + 1]),
         RMul(RMul(R(f.mask_weights[i + 2]), discount), q_last))

\* a blend weighted by lamb_weight alone
NextValueNoLamb(qv, lamb_weight, q_next) ==
    RDiv(RAdd(qv, RMul(lamb_weight, q_next)), RAdd(R(1), lamb_weight))

\* (q_values[i] + lamb * lamb_weight * q_next) / (1 + lamb * lamb_weight)
NextValue(qv, lamb_weight, q_next) ==
    RDiv(RAdd(qv, RMul(RMul(lamb, lamb_weight), q_next)),
         RAdd(R(1), RMul(lamb, lamb_weight)))

\* lamb_weight = 1.0 + lamb * lamb_weight
LambWeightNext(lamb_weight) == RAdd(R(1), RMul(lamb, lamb_weight))

\* the loop with lamb_weight incremented before it is used in next_value
RECURSIVE LambdaLoopIncrementFirst(_, _, _, _)
LambdaLoopIncrementFirst(f, i, q, lamb_weight) ==
    IF i < 0 THEN q
    ELSE LET w == LambWeightNext(lamb_weight)
             q_next == QNext(f, i, Last(q))
             next_value == NextValue(f.q_values[i + 1], w, q_next)
         IN  LambdaLoopIncrementFirst(f, i - 1, Append(q, next_value), w)

\* "for i in reversed(range(H))" of the lambda-returns, from iteration i on
RECURSIVE LambdaLoop(_, _, _, _)
LambdaLoop(f, i, q, lamb_weight) ==
    IF i < 0 THEN q
    ELSE LET q_next == QNext(f, i, Last(q))
             next_value == NextValue(f.q_values[i + 1], lamb_weight, q_next)
         IN  LambdaLoop(f, i - 1, Append(q, next_value), LambWeightNext(lamb_weight))

\* q_rollout, lamb_weight = [q_values[-1]], 1.0; the loop; list(reversed(q_rollout))
LambdaReturns(f) == Reverse(LambdaLoop(f, H - 1, <<Last(f.q_values)>>, R(1)))

\* "for i in reversed(range(H))" of the multi-step returns, from iteration i on
RECURSIVE MultistepLoop(_, _, _)
MultistepLoop(f, i, q) ==
    IF i < 0 THEN q
    ELSE MultistepLoop(f, i - 1, Append(q, QNext(f, i, Last(q))))

\* the returns left in the order the loop produced them
MultistepReturnsUnreversed(f) == MultistepLoop(f, H - 1, <<Last(f.q_values)>>)

\* q_rollout = [q_values[-1]]; the loop; list(reversed(q_rollout))
MultistepReturns(f) == Reverse(MultistepLoop(f, H - 1, <<Last(f.q_values)>>))

Returns(f) == IF variant = "lambda" THEN LambdaReturns(f) ELSE MultistepReturns(f)

\* ------------------------------------------------------ asymmetric weights
\* the comparison with >= in place of >
WhereGe(q, v) == IF RLe(v, q) THEN expectile ELSE RSub(R(1), expectile)

\* jnp.where(q_rollout[i] > q_values[i], expectile, 1 - expectile)
Where(q, v) == IF RGt(q, v) THEN expectile ELSE RSub(R(1), expectile)

\* "for i in range(H)": the weight of step i; then ep_weights.append(0.5)
EpWeights(q, q_values) ==
    [j \in 1..(H + 1) |-> IF j <= H THEN Where(q[j], q_values[j]) ELSE <<1, 2>>]

\* -------------------------------------------- the update, one batch element
NoBatch ==
    /\ B = 0
    /\ calls = <<>>
    /\ actions0 = <<>>
    /\ mask_weights0 = <<>>
    /\ q_rollout = <<>>
    /\ ep_weights = <<>>
    /\ grad_gae = <<>>
    /\ actions_grad = <<>>
    /\ policy_std = <<>>
    /\ actor_loss = <<>>
    /\ info = <<>>

Init ==
    /\ variant \in {"lambda", "multistep"}
    /\ H \in 1..MaxH
    /\ discount \in Discounts
    /\ lamb \in IF variant = "lambda" THEN Lambdas ELSE {R(0)}
    /\ expectile \in Expectiles
    /\ Robs \in States
    /\ Ra \in Actions
    /\ actorT = (Robs :> Ra)
    /\ criticT = <<>>
    /\ modelT = <<>>
    /\ delta_a = <<>>
    /\ delta_p = <<>>
    /\ pc = "foward"
    /\ fwd = NoFrame
    /\ bwd = NoFrame
    /\ pert = NoFrame
    /\ NoBatch

FowardBegin ==
    /\ pc = "foward"
    /\ fwd = NoFrame
    /\ \E r \in FowardBeginResults :
          /\ fwd' = r.frame
          /\ criticT' = r.cT
    /\ UNCHANGED <<Config, Batch, Robs, Ra, delta_a, delta_p, actorT, modelT, pc, bwd, pert>>

FowardStep ==
    /\ pc = "foward"
    /\ fwd # NoFrame
    /\ Len(fwd.rewards) < H
    /\ \E r \in FowardStepResults(fwd) :
          /\ fwd' = r.frame
          /\ actorT' = r.aT
          /\ criticT' = r.cT
          /\ modelT' = r.mT
    /\ UNCHANGED <<Config, Batch, Robs, Ra, delta_a, delta_p, pc, bwd, pert>>

\* the returns, the asymmetric weights, return;
\* then delta_a = jnp.zeros_like(actions0)
FowardReturn ==
    /\ pc = "foward"
    /\ fwd # NoFrame
    /\ Len(fwd.rewards) = H
    /\ LET q == Returns(fwd)
       IN  fwd' = [fwd EXCEPT !.q_rollout = q,
                              !.ep_weights = EpWeights(q, fwd.q_values)]
    /\ delta_a' = Zeros(H + 1)
    /\ pc' = "backward"
    /\ UNCHANGED <<Config, Batch, Robs, Ra, delta_p, actorT, criticT, modelT, bwd, pert>>

BackwardBegin ==
    /\ pc = "backward"
    /\ bwd = NoFrame
    /\ \E r \in BackwardBeginResults(delta_a) :
          /\ bwd' = r.frame
          /\ criticT' = r.cT
    /\ UNCHANGED <<Config, Batch, Robs, Ra, delta_a, delta_p, actorT, modelT, pc, fwd, pert>>

BackwardStep ==
    /\ pc = "backward"
    /\ bwd # NoFrame
    /\ Len(bwd.rewards) < H
    /\ \E r \in BackwardStepResults(bwd, delta_a) :
          /\ bwd' = r.frame
          /\ actorT' = r.aT
          /\ criticT' = r.cT
          /\ modelT' = r.mT
    /\ UNCHANGED <<Config, Batch, Robs, Ra, delta_a, delta_p, pc, fwd, pert>>

BackwardReturn ==
    /\ pc = "backward"
    /\ bwd # NoFrame
    /\ Len(bwd.rewards) = H
    /\ bwd' = [bwd EXCEPT !.q_rollout = Returns(bwd)]
    /\ pc' = "done"
    /\ UNCHANGED <<Config, Batch, Robs, Ra, delta_a, delta_p, actorT, criticT, modelT,
                   fwd, pert>>

Next ==
    \/ FowardBegin
    \/ FowardStep
    \/ FowardReturn
    \/ BackwardBegin
    \/ BackwardStep
    \/ BackwardReturn

Spec == Init /\ [][Next]_vars

\* ------------------------------------------- two evaluations of backward
\* calculate_gae_backward evaluated at the perturbation delta_a = 0 and then
\* at a perturbation delta_p that differs from delta_a at one index k >= 1
Epsilons == {1}

InitPerturb ==
    /\ variant \in {"lambda", "multistep"}
    /\ H \in 1..MaxH
    /\ discount = <<1, 2>>
    /\ lamb = IF variant = "lambda" THEN <<1, 2>> ELSE R(0)
    /\ expectile \in Expectiles
    /\ Robs = 0
    /\ Ra \in Actions
    /\ actorT = (Robs :> Ra)
    /\ criticT = <<>>
    /\ modelT = <<>>
    /\ delta_a = Zeros(H + 1)
    /\ delta_p = <<>>
    /\ pc = "backward"
    /\ fwd = NoFrame
    /\ bwd = NoFrame
    /\ pert = NoFrame
    /\ NoBatch

PerturbedBegin ==
    /\ pc = "done"
    /\ \E k \in 1..H : \E e \in Epsilons :
          LET d == [delta_a EXCEPT ![k + 1] = @ + e]
          IN  /\ delta_p' = d
              /\ \E r \in BackwardBeginResults(d) :
                    /\ pert' = r.frame
                    /\ criticT' = r.cT
    /\ pc' = "perturbed"
    /\ UNCHANGED <<Config, Batch, Robs, Ra, delta_a, actorT, modelT, fwd, bwd>>

PerturbedStep ==
    /\ pc = "perturbed"
    /\ Len(pert.rewards) < H
    /\ \E r \in BackwardStepResults(pert, delta_p) :
          /\ pert' = r.frame
          /\ actorT' = r.aT
          /\ criticT' = r.cT
          /\ modelT' = r.mT
    /\ UNCHANGED <<Config, Batch, Robs, Ra, delta_a, delta_p, pc, fwd, bwd>>

PerturbedReturn ==
    /\ pc = "perturbed"
    /\ Len(pert.rewards) = H
    /\ pert' = [pert EXCEPT !.q_rollout = Returns(pert)]
    /\ pc' = "compared"
    /\ UNCHANGED <<Config, Batch, Robs, Ra, delta_a, delta_p, actorT, criticT, modelT,
                   fwd, bwd>>

NextPerturb ==
    \/ BackwardBegin
    \/ BackwardStep
    \/ BackwardReturn
    \/ PerturbedBegin
    \/ PerturbedStep
    \/ PerturbedReturn

SpecPerturb == InitPerturb /\ [][NextPerturb]_vars

\* ------------------------------------------------- the update, the batch
\* tensors of shape (H + 1, B) are functions T[i][b], i in 1..H+1, b in 1..B
RECURSIVE SumTo(_, _)
SumTo(s, n) == IF n = 0 THEN R(0) ELSE RAdd(SumTo(s, n - 1), s[n])

SumSeq(s) == SumTo(s, Len(s))

\* x.mean() over both axes
Mean(T) == RDiv(SumSeq([i \in 1..Len(T) |-> SumSeq(T[i])]), R(Len(T) * Len(T[1])))

\* elementwise product of two tensors
Times(T, U) == [i \in 1..Len(T) |-> [b \in 1..Len(T[i]) |-> RMul(T[i][b], U[i][b])]]

\* masks whose first entry already counts the first terminal flag
RECURSIVE MaskWeightsShifted(_, _)
MaskWeightsShifted(terminals, n) ==
    IF n = 0 THEN <<1 - terminals[1]>>
    ELSE LET m == MaskWeightsShifted(terminals, n - 1)
         IN  Append(m, m[n] * (1 - terminals[n]))

\* mask_weights = [1.0], then mask_weights.append(mask_weights[i] * (1 - terminal))
RECURSIVE MaskWeights(_, _)
MaskWeights(terminals, n) ==
    IF n = 0 THEN <<1>>
    ELSE LET m == MaskWeights(terminals, n - 1)
         IN  Append(m, MaskNext(m[n], terminals[n]))

\* calculate_gae_foward of one element, given what its calls returned
FowardOf(c) ==
    LET f == [NoFrame EXCEPT !.states = c.states,
                             !.actions = c.actions,
                             !.rewards = c.rewards,
                             !.mask_weights = MaskWeights(c.terminals, H),
                             !.q_values = [j \in 1..(H + 1) |-> R(c.q_values[j])]]
        q == Returns(f)
    IN  [f EXCEPT !.q_rollout = q, !.ep_weights = EpWeights(q, f.q_values)]

\* what a rollout of one element can be handed by the model, actor and critic
TrajSamples == {[r |-> 1, c |-> 0, a |-> 0], [r |-> 0, c |-> 2, a |-> 1]}
Trajectories ==
    { [states |-> [j \in 1..(H + 1) |-> 0],
       actions |-> [j \in 1..(H + 1) |-> s.a],
       rewards |-> [j \in 1..H |-> s.r],
       terminals |-> t,
       q_values |-> [j \in 1..(H + 1) |-> s.c]]
      : s \in TrajSamples, t \in [1..H -> Terminals] }

\* values of the jacobian diagonal, of the policy's actions and of its scale
GradSamples == { [i \in 1..(H + 1) |-> [b \in 1..B |-> R(1)]],
                 [i \in 1..(H + 1) |-> [b \in 1..B |-> R(i - 2 * b)]] }
ActionSamples == { [i \in 1..(H + 1) |-> [b \in 1..B |-> R(b)]],
                   [i \in 1..(H + 1) |-> [b \in 1..B |-> R(i * i - b)]] }
StdSamples == { [i \in 1..(H + 1) |-> [b \in 1..B |-> <<1, 2>>]] }

\* the loss as the mean over horizon and batch
ActorLossMeanAll(ep, grad, act) == RSub(R(0), Mean(Times(Times(ep, grad), act)))

\* -(ep_weights[:, :, None] * grad_gae * actions_grad).mean(axis=1).sum()
ActorLoss(ep, grad, act) ==
    LET prod == Times(Times(ep, grad), act)
        mean1 == [i \in 1..Len(prod) |-> RDiv(SumSeq(prod[i]), R(Len(prod[i])))]
    IN  RSub(R(0), SumSeq(mean1))

\* (x * mask_weights0).mean() / mask_weights0.mean()
MaskedMean(T, mask) == JDiv(Mean(Times(T, mask)), Mean(mask))

InitBatch ==
    /\ variant \in {"lambda", "multistep"}
    /\ H \in 1..MaxH
    /\ discount \in Discounts
    /\ lamb = IF variant = "lambda" THEN <<1, 2>> ELSE R(0)
    /\ expectile \in Expectiles
    /\ Robs = 0
    /\ Ra = 0
    /\ actorT = <<>>
    /\ criticT = <<>>
    /\ modelT = <<>>
    /\ delta_a = <<>>
    /\ delta_p = <<>>
    /\ fwd = NoFrame
    /\ bwd = NoFrame
    /\ pert = NoFrame
    /\ pc = "vmap_foward"
    /\ B \in 1..MaxB
    /\ calls = <<>>
    /\ actions0 = <<>>
    /\ mask_weights0 = <<>>
    /\ q_rollout = <<>>
    /\ ep_weights = <<>>
    /\ grad_gae = <<>>
    /\ actions_grad = <<>>
    /\ policy_std = <<>>
    /\ actor_loss = <<>>
    /\ info = <<>>

\* vmap_foward(calculate_gae_foward)(Robs, Ra, keys), out_axes = 1
VmapFoward ==
    /\ pc = "vmap_foward"
    /\ \E r \in [1..B -> {[c |-> c, f |-> FowardOf(c)] : c \in Trajectories}] :
          /\ calls' = [b \in 1..B |-> r[b].c]
          /\ actions0' = [i \in 1..(H + 1) |-> [b \in 1..B |-> R(r[b].f.actions[i])]]
          /\ mask_weights0' =
                [i \in 1..(H + 1) |-> [b \in 1..B |-> R(r[b].f.mask_weights[i])]]
          /\ q_rollout' = [i \in 1..(H + 1) |-> [b \in 1..B |-> r[b].f.q_rollout[i]]]
          /\ ep_weights' = [i \in 1..(H + 1) |-> [b \in 1..B |-> r[b].f.ep_weights[i]]]
    /\ pc' = "jacrev"
    /\ UNCHANGED <<Config, Element, B, grad_gae, actions_grad, policy_std, actor_loss, info>>

\* vmap_backward(jax.jacrev(calculate_gae_backward)) and its diagonal
GradGae ==
    /\ pc = "jacrev"
    /\ grad_gae' \in GradSamples
    /\ pc' = "actor_loss_fn"
    /\ UNCHANGED <<Config, Element, B, calls, actions0, mask_weights0, q_rollout,
                   ep_weights, actions_grad, policy_std, actor_loss, info>>

ActorLossFn ==
    /\ pc = "actor_loss_fn"
    /\ actions_grad' \in ActionSamples
    /\ policy_std' \in StdSamples
    /\ actor_loss' = ActorLoss(ep_weights, grad_gae, actions_grad')
    /\ info' = [actor_loss |-> actor_loss',
                q_rollout |-> Mean(q_rollout),
                policy_std |-> MaskedMean(policy_std', mask_weights0),
                adv_weights |-> MaskedMean(ep_weights, mask_weights0),
                abs_actions |-> Mean([i \in 1..(H + 1) |->
                                        [b \in 1..B |-> R(Abs(actions0[i][b][1]))]])]
    /\ pc' = "done"
    /\ UNCHANGED <<Config, Element, B, calls, actions0, mask_weights0, q_rollout,
                   ep_weights, grad_gae>>

NextBatch ==
    \/ VmapFoward
    \/ GradGae
    \/ ActorLossFn

SpecBatch == InitBatch /\ [][NextBatch]_vars

\* ================================================================ claims
Returned(f) == f.q_rollout # <<>>

\* the terminal flag the model returned at step i (code index i - 1) of f
Terminal(f, i) == modelT[<<f.rngs[i], f.states[i], f.actions[i]>>].terminal

\* the index k (code index) at which delta_p differs from delta_a
K == CHOOSE k \in 1..H : delta_p[k + 1] # delta_a[k + 1]

\* C1 (as stated): two evaluations of calculate_gae_backward whose
\* perturbations differ only at index k give the same q_rollout[j] for j < k
C1_EarlierReturnsUnaffected ==
    pc = "compared" =>
        \A j \in 0..(K - 1) : pert.q_rollout[j + 1] = bwd.q_rollout[j + 1]

\* C1 (amended): they give the same q_rollout[j] for j < k when the rollout
\* has terminated before step k, that is when mask_weights[k] = 0
C1_EarlierReturnsUnaffectedOnceTerminated ==
    (pc = "compared" /\ bwd.mask_weights[K + 1] = 0) =>
        \A j \in 0..(K - 1) : pert.q_rollout[j + 1] = bwd.q_rollout[j + 1]

C1_Witness ==
    /\ pc = "compared"
    /\ H = 2
    /\ K = 2
    /\ bwd.mask_weights = <<1, 1, 0>>
    /\ bwd.rewards[2] = 1
    /\ pert.q_rollout[3] # bwd.q_rollout[3]

\* the sum over all steps and batch elements of ep_weights * grad_gae * actions_grad
C2_Total ==
    SumSeq([i \in 1..(H + 1) |->
        SumSeq([b \in 1..B |->
            RMul(ep_weights[i][b], RMul(grad_gae[i][b], actions_grad[i][b]))])])

\* C2 (as stated): actor_loss is minus that sum divided by the number of
\* horizon steps times the batch size
C2_LossIsMeanOverHorizonAndBatch ==
    pc = "done" => actor_loss = RSub(R(0), RDiv(C2_Total, R((H + 1) * B)))

\* C2 (amended): actor_loss is minus that sum divided by the batch size only
C2_LossIsSumOverHorizonOfBatchMeans ==
    pc = "done" => actor_loss = RSub(R(0), RDiv(C2_Total, R(B)))

C2_Witness ==
    /\ pc = "done"
    /\ H = 2
    /\ B = 2
    /\ actor_loss[1] # 0
    /\ ep_weights[1][1] # ep_weights[1][2]

\* C3 for the rollout f: mask_weights starts at 1, each entry is the previous one times
\* (1 - terminal), so it never increases, stays in {0, 1} and stays 0 once 0;
\* a finished rollout has H + 1 entries
C3_MaskOf(f) ==
    LET m == f.mask_weights
    IN  f # NoFrame =>
          /\ m[1] = 1
          /\ Len(m) = Len(f.rewards) + 1
          /\ Returned(f) => Len(m) = H + 1
          /\ \A i \in 1..(Len(m) - 1) :
                /\ Terminal(f, i) \in {0, 1}
                /\ m[i + 1] = m[i] * (1 - Terminal(f, i))
                /\ m[i + 1] <= m[i]
          /\ \A i \in 1..Len(m) : m[i] >= 0 /\ m[i] <= 1
          /\ \A i \in 1..Len(m) : \A j \in i..Len(m) : m[i] = 0 => m[j] = 0

\* C3: the alive-mask invariant holds of the foward and of the backward rollout
C3_AliveMask == C3_MaskOf(fwd) /\ C3_MaskOf(bwd)

C3_Witness ==
    /\ pc = "done"
    /\ H = 2
    /\ fwd.mask_weights = <<1, 0, 0>>
    /\ Terminal(fwd, 2) = 0

\* C4: the multi-step returns: q_rollout[H] is the critic's value at step H,
\* q_rollout[i] = mask[i] * reward[i] + mask[i+1] * discount * q_rollout[i+1],
\* and with no reward and no termination q_rollout[i] = discount^(H-i) * q_values[H]
C4_MultistepReturns ==
    (variant = "multistep" /\ Returned(fwd)) =>
        LET q == fwd.q_rollout
            m == fwd.mask_weights
        IN  /\ Len(q) = H + 1
            /\ q[H + 1] = fwd.q_values[H + 1]
            /\ \A i \in 1..H :
                  q[i] = RAdd(RMul(R(m[i]), R(fwd.rewards[i])),
                              RMul(R(m[i + 1]), RMul(discount, q[i + 1])))
            /\ ((\A i \in 1..H : fwd.rewards[i] = 0 /\ Terminal(fwd, i) = 0) =>
                  \A i \in 0..H :
                      q[i + 1] = RMul(RPow(discount, H - i), fwd.q_values[H + 1]))

C4_Witness ==
    /\ variant = "multistep"
    /\ Returned(fwd)
    /\ H = 2
    /\ \A i \in 1..H : fwd.rewards[i] = 0 /\ Terminal(fwd, i) = 0
    /\ fwd.q_values[3] = R(2)
    /\ fwd.q_rollout[1] = RMul(RMul(discount, discount), R(2))

\* the n-step return from step i (code index i): G(i, 0) = q_values[i],
\* G(i, n) = mask[i] * reward[i] + mask[i+1] * discount * G(i+1, n-1)
RECURSIVE C5_G(_, _, _)
C5_G(f, i, n) ==
    IF n = 0 THEN f.q_values[i + 1]
    ELSE RAdd(RMul(R(f.mask_weights[i + 1]), R(f.rewards[i + 1])),
              RMul(R(f.mask_weights[i + 2]), RMul(discount, C5_G(f, i + 1, n - 1))))

\* C5: the lambda-returns: q_rollout[i] times the sum of lambda^n over
\* n = 0..H-i is the sum of lambda^n * G(i, n) over n = 0..H-i
C5_LambdaReturnsAreWeightedAverage ==
    (variant = "lambda" /\ Returned(fwd)) =>
        \A i \in 0..H :
            RMul(fwd.q_rollout[i + 1],
                 SumSeq([n1 \in 1..(H - i + 1) |-> RPow(lamb, n1 - 1)]))
            = SumSeq([n1 \in 1..(H - i + 1) |->
                        RMul(RPow(lamb, n1 - 1), C5_G(fwd, i, n1 - 1))])

C5_Witness ==
    /\ variant = "lambda"
    /\ Returned(fwd)
    /\ H = 2
    /\ lamb = <<1, 2>>
    /\ fwd.mask_weights = <<1, 1, 1>>
    /\ fwd.rewards = <<1, 0>>
    /\ fwd.q_rollout[1] # fwd.q_values[1]
    /\ fwd.q_rollout[2] # fwd.q_values[2]

\* C6: with lambda = 0 the lambda-returns are the critic's own values
C6_LambdaZeroIsCritic ==
    (variant = "lambda" /\ lamb = R(0) /\ Returned(fwd)) =>
        \A i \in 0..H : fwd.q_rollout[i + 1] = fwd.q_values[i + 1]

C6_Witness ==
    /\ variant = "lambda"
    /\ lamb = R(0)
    /\ Returned(fwd)
    /\ H = 2
    /\ fwd.mask_weights = <<1, 1, 1>>
    /\ fwd.rewards = <<1, 1>>
    /\ fwd.q_values = <<R(0), R(2), R(0)>>

\* C7: ep_weights has H + 1 entries; entry i < H is expectile when
\* q_rollout[i] > q_values[i] and 1 - expectile otherwise; entry H is 0.5
C7_ExpectileWeights ==
    Returned(fwd) =>
        /\ Len(fwd.ep_weights) = H + 1
        /\ fwd.ep_weights[H + 1] = <<1, 2>>
        /\ \A i \in 1..H :
              LET q == fwd.q_rollout[i]
                  v == fwd.q_values[i]
              IN  fwd.ep_weights[i] =
                     IF q[1] * v[2] > v[1] * q[2]
                     THEN expectile
                     ELSE <<expectile[2] - expectile[1], expectile[2]>>

C7_Witness ==
    /\ Returned(fwd)
    /\ H = 2
    /\ fwd.q_rollout[1] # fwd.q_values[1]
    /\ fwd.q_rollout[2] = fwd.q_values[2]
    /\ fwd.ep_weights = <<expectile, RSub(R(1), expectile), <<1, 2>> >>

\* the rollout of the scenario: reward 1 and no termination at every step,
\* the critic's value c at every step, 1 > c * (1 - discount), lambda > 0
C8_Scenario(c) ==
    /\ variant = "lambda"
    /\ lamb[1] > 0
    /\ Returned(fwd)
    /\ \A i \in 1..H : fwd.rewards[i] = 1 /\ Terminal(fwd, i) = 0
    /\ \A i \in 1..(H + 1) : fwd.q_values[i] = R(c)
    /\ RGt(R(1), RMul(R(c), RSub(R(1), discount)))

\* C8: in that scenario q_rollout[H] = c, q_rollout[i] > c for i < H,
\* ep_weights[i] = expectile for i < H and ep_weights[H] = 0.5
C8_ConstantCriticScenario ==
    \A c \in QValues :
        C8_Scenario(c) =>
            /\ fwd.q_rollout[H + 1] = R(c)
            /\ \A i \in 1..H :
                  /\ fwd.q_rollout[i][1] > c * fwd.q_rollout[i][2]
                  /\ fwd.ep_weights[i] = expectile
            /\ fwd.ep_weights[H + 1] = <<1, 2>>

C8_Witness == C8_Scenario(2) /\ H = 2 /\ pc = "done"

\* C9: the mean of mask_weights0 is never zero, and the masked means
\* policy_std and adv_weights of the report are numbers
C9_DenominatorNotZero ==
    /\ pc \in {"jacrev", "actor_loss_fn", "done"} => Mean(mask_weights0)[1] # 0
    /\ pc = "done" => info.policy_std # NaN /\ info.adv_weights # NaN

C9_Witness ==
    /\ pc = "done"
    /\ H = 2
    /\ B = 2
    /\ \A b \in 1..B : calls[b].terminals[1] = 1
    /\ Mean(mask_weights0) = <<1, 3>>
    /\ info.adv_weights # NaN

\* C10: calculate_gae_backward at the zero perturbation replays the rollout
\* of calculate_gae_foward: the same keys (the noise key is the first sub-key
\* of the carried key, the fourth is carried on), states, actions, rewards,
\* masks, critic values and q_rollout
C10_BackwardReplaysFoward ==
    pc = "done" =>
        /\ delta_a = [j \in 1..(H + 1) |-> 0]
        /\ \A i \in 1..H :
              /\ fwd.rngs[i] = Append(fwd.keys[i], 1)
              /\ bwd.rngs[i] = Append(bwd.keys[i], 1)
              /\ fwd.keys[i + 1] = Append(fwd.keys[i], 4)
              /\ bwd.keys[i + 1] = Append(bwd.keys[i], 4)
        /\ bwd.keys = fwd.keys
        /\ bwd.rngs = fwd.rngs
        /\ bwd.states = fwd.states
        /\ bwd.actions = fwd.actions
        /\ bwd.rewards = fwd.rewards
        /\ bwd.mask_weights = fwd.mask_weights
        /\ bwd.q_values = fwd.q_values
        /\ bwd.q_rollout = fwd.q_rollout

C10_Witness ==
    /\ pc = "done"
    /\ H = 2
    /\ bwd.states = <<0, 1, 0>>
    /\ bwd.mask_weights = <<1, 1, 0>>
    /\ bwd.q_rollout = fwd.q_rollout
    /\ bwd.q_rollout[1] # bwd.q_values[1]

====
